---- MODULE Spec2Model ----
(***************************************************************************)
(* Model of SearchesApi.filter_responses and its helper                    *)
(* SearchesApi._matches_file_filters (slskd_api/apis/searches.py).         *)
(*                                                                         *)
(* Python values are modelled as follows.                                  *)
(*   dict      a function whose DOMAIN is the set of keys present          *)
(*   list      a sequence                                                  *)
(*   str       a sequence of one-character strings                         *)
(*   object    dicts that the code copies or assigns into live in `heap`   *)
(*             and are named by their index (their identity), so that a    *)
(*             write through an alias is visible                           *)
(***************************************************************************)
EXTENDS Integers, Sequences, FiniteSets, TLC

VARIABLES heap, responses, filters, result, origin, pc

vars == <<heap, responses, filters, result, origin, pc>>

(* ------------------------------ bounds -------------------------------- *)

\* largest value of a numeric field of a response or of a file
MaxNum == 2
\* largest value of a numeric criterion of the filter configuration
MaxBound == 1
\* longest files list of a response whose files are drawn from FilePool
MaxFiles == 2
\* longest responses list drawn from ResponsePool
MaxResponses == 2

(* --------------------------- Python values ---------------------------- *)

EmptyDict == <<>>

\* the str "." and the separator of filename.split(".")
Dot == "."

UpperChars == <<"A","B","C","D","E","F","G","H","I","J","K","L","M",
                "N","O","P","Q","R","S","T","U","V","W","X","Y","Z">>

LowerChars == <<"a","b","c","d","e","f","g","h","i","j","k","l","m",
                "n","o","p","q","r","s","t","u","v","w","x","y","z">>

\* str.lower() on one character
LowerChar(c) ==
    IF \E i \in 1..Len(UpperChars) : UpperChars[i] = c
    THEN LowerChars[CHOOSE i \in 1..Len(UpperChars) : UpperChars[i] = c]
    ELSE c

\* str.lower()
Lower(s) == [i \in 1..Len(s) |-> LowerChar(s[i])]

\* "." in filename
Contains(s, c) == \E i \in 1..Len(s) : s[i] = c

\* filename.split("."): the list of pieces between the separators
RECURSIVE SplitFrom(_, _, _, _)
SplitFrom(s, sep, i, piece) ==
    IF i > Len(s) THEN <<piece>>
    ELSE IF s[i] = sep THEN <<piece>> \o SplitFrom(s, sep, i + 1, <<>>)
    ELSE SplitFrom(s, sep, i + 1, Append(piece, s[i]))

Split(s, sep) == SplitFrom(s, sep, 1, <<>>)

\* pieces[-1]
LastOf(pieces) == pieces[Len(pieces)]

\* x in list
InList(x, list) == \E i \in 1..Len(list) : list[i] = x

\* d.get(key, default)
Get(d, key, default) == IF key \in DOMAIN d THEN d[key] ELSE default

BoolKeys == {"hasFreeSlot", "hasFreeUploadSlot"}
ListKeys == {"fileExtensions", "files"}

\* Truthy as an `is not None` test: every value that is present counts
TruthyNotNone(key, v) == TRUE

\* truth value of a Python object stored under `key`: False, 0, "" and []
\* are falsy
Truthy(key, v) ==
    IF key \in BoolKeys THEN v = TRUE
    ELSE IF key \in ListKeys THEN Len(v) # 0
    ELSE v # 0

\* truth value of d.get(key): None (key absent) is falsy
GetTruthy(d, key) == key \in DOMAIN d /\ Truthy(key, d[key])

\* d[key] = v
SetItem(d, key, v) == [k \in DOMAIN d \cup {key} |-> IF k = key THEN v ELSE d[k]]

\* MatchesFileFilters with the size bound exclusive (<= for <)
MatchesFileFiltersExclusive(file, flt) ==
    IF GetTruthy(flt, "minBitRate")
       /\ Get(file, "bitRate", 0) < flt["minBitRate"]
    THEN FALSE
    ELSE IF GetTruthy(flt, "minSize")
            /\ Get(file, "size", 0) <= flt["minSize"]
    THEN FALSE
    ELSE IF GetTruthy(flt, "minLength")
            /\ Get(file, "length", 0) < flt["minLength"]
    THEN FALSE
    ELSE IF GetTruthy(flt, "fileExtensions")
    THEN LET filename == Get(file, "filename", <<>>) IN
         IF Contains(filename, Dot)
         THEN LET ext == Lower(LastOf(Split(filename, Dot))) IN
              IF ~InList(ext, flt["fileExtensions"]) THEN FALSE ELSE TRUE
         ELSE TRUE
    ELSE TRUE

(* ----------------------- _matches_file_filters ------------------------ *)

MatchesFileFilters(file, flt) ==
    IF GetTruthy(flt, "minBitRate")
       /\ Get(file, "bitRate", 0) < flt["minBitRate"]
    THEN FALSE
    ELSE IF GetTruthy(flt, "minSize")
            /\ Get(file, "size", 0) < flt["minSize"]
    THEN FALSE
    ELSE IF GetTruthy(flt, "minLength")
            /\ Get(file, "length", 0) < flt["minLength"]
    THEN FALSE
    ELSE IF GetTruthy(flt, "fileExtensions")
    THEN LET filename == Get(file, "filename", <<>>) IN
         IF Contains(filename, Dot)
         THEN LET ext == Lower(LastOf(Split(filename, Dot))) IN
              IF ~InList(ext, flt["fileExtensions"]) THEN FALSE ELSE TRUE
         ELSE TRUE
    ELSE TRUE

(* -------------------------- filter_responses -------------------------- *)

\* UserRejected with the queue comparison reversed (< for >)
UserRejectedReversed(response, flt) ==
    \/ GetTruthy(flt, "hasFreeSlot")
       /\ ~GetTruthy(response, "hasFreeUploadSlot")
    \/ GetTruthy(flt, "maxQueueLength")
       /\ Get(response, "queueLength", 0) < flt["maxQueueLength"]
    \/ GetTruthy(flt, "minUploadSpeed")
       /\ Get(response, "uploadSpeed", 0) < flt["minUploadSpeed"]

\* the user-level checks: TRUE when the loop `continue`s past the response
UserRejected(response, flt) ==
    \/ GetTruthy(flt, "hasFreeSlot")
       /\ ~GetTruthy(response, "hasFreeUploadSlot")
    \/ GetTruthy(flt, "maxQueueLength")
       /\ Get(response, "queueLength", 0) > flt["maxQueueLength"]
    \/ GetTruthy(flt, "minUploadSpeed")
       /\ Get(response, "uploadSpeed", 0) < flt["minUploadSpeed"]

\* FilterFilesFrom with insert(0, file) for append(file)
RECURSIVE FilterFilesPrepend(_, _, _, _)
FilterFilesPrepend(files, flt, k, filtered_files) ==
    IF k > Len(files) THEN filtered_files
    ELSE FilterFilesPrepend(files, flt, k + 1,
             IF MatchesFileFilters(files[k], flt)
             THEN <<files[k]>> \o filtered_files
             ELSE filtered_files)

\* the inner loop: a new list of the files that match, in order
RECURSIVE FilterFilesFrom(_, _, _, _)
FilterFilesFrom(files, flt, k, filtered_files) ==
    IF k > Len(files) THEN filtered_files
    ELSE FilterFilesFrom(files, flt, k + 1,
             IF MatchesFileFilters(files[k], flt)
             THEN Append(filtered_files, files[k])
             ELSE filtered_files)

FilterFiles(files, flt) == FilterFilesFrom(files, flt, 1, <<>>)

\* CopyDict without the copy: filtered_response = response
CopyDictAlias(h, id) == [heap |-> h, id |-> id]

\* CopyDict that starts from an empty dict: filtered_response = {}
CopyDictEmpty(h, id) == [heap |-> Append(h, EmptyDict), id |-> Len(h) + 1]

\* response.copy(): a new dict object with the same items (shallow copy);
\* yields the heap after the allocation and the identity of the copy
CopyDict(h, id) == [heap |-> Append(h, h[id]), id |-> Len(h) + 1]

\* StoreFiltered without the fileCount assignment
StoreFilteredFilesOnly(h, id, filtered_files) ==
    [h EXCEPT ![id] = SetItem(h[id], "files", filtered_files)]

\* filtered_response["files"] = ...; filtered_response["fileCount"] = ...
StoreFiltered(h, id, filtered_files) ==
    [h EXCEPT ![id] = SetItem(SetItem(h[id], "files", filtered_files),
                              "fileCount", Len(filtered_files))]

\* the outer loop from the i-th response on. `filtered` is the list being
\* built; `from` records, for each element of `filtered`, the index of the
\* input response it was copied from (history only, never read by the loop)
RECURSIVE FilterLoop(_, _, _, _, _, _)
FilterLoop(h, resps, flt, i, filtered, from) ==
    IF i > Len(resps)
    THEN [heap |-> h, filtered |-> filtered, origin |-> from]
    ELSE LET response == h[resps[i]] IN
         IF UserRejected(response, flt)
         THEN FilterLoop(h, resps, flt, i + 1, filtered, from)
         ELSE LET filtered_files == FilterFiles(Get(response, "files", <<>>), flt) IN
              IF Len(filtered_files) # 0
              THEN LET c == CopyDict(h, resps[i]) IN
                   FilterLoop(StoreFiltered(c.heap, c.id, filtered_files),
                              resps, flt, i + 1,
                              Append(filtered, c.id), Append(from, i))
              ELSE FilterLoop(h, resps, flt, i + 1, filtered, from)

FilterResponses(h, resps, flt) == FilterLoop(h, resps, flt, 1, <<>>, <<>>)

(* ------------------------------ inputs -------------------------------- *)

README     == <<"R","E","A","D","M","E">>
track_mp3  == <<"t","r","a","c","k",".","m","p","3">>
Track_MP3  == <<"T","r","a","c","k",".","M","P","3">>
a_mp3_flac == <<"a",".","m","p","3",".","f","l","a","c">>
mp3        == <<"m","p","3">>
MP3        == <<"M","P","3">>
flac       == <<"f","l","a","c">>

FileNames == {README, track_mp3, Track_MP3, a_mp3_flac}

ExtensionLists == {<<>>, <<mp3>>, <<MP3>>, <<mp3, flac>>}

\* a key that is absent, or present with one of the values
Optional(key, values) == {EmptyDict} \cup {key :> v : v \in values}

\* every file record over the file fields
AllFiles ==
    {a @@ b @@ c @@ d :
        a \in Optional("filename", FileNames),
        b \in Optional("bitRate", 0..MaxNum),
        c \in Optional("size", 0..MaxNum),
        d \in Optional("length", 0..MaxNum)}

\* every filter configuration over the per-file criteria
FileFilters ==
    {a @@ b @@ c @@ d :
        a \in Optional("minBitRate", 0..MaxBound),
        b \in Optional("minSize", 0..MaxBound),
        c \in Optional("minLength", 0..MaxBound),
        d \in Optional("fileExtensions", ExtensionLists)}

\* every filter configuration over the response-level criteria
UserFilters ==
    {a @@ b @@ c :
        a \in Optional("hasFreeSlot", BOOLEAN),
        b \in Optional("maxQueueLength", 0..MaxBound),
        c \in Optional("minUploadSpeed", 0..MaxBound)}

OneFile == [filename |-> track_mp3, bitRate |-> 1, size |-> 1, length |-> 1]

\* every response record over the response fields
AllResponses ==
    {a @@ b @@ c @@ d @@ e :
        a \in Optional("hasFreeUploadSlot", BOOLEAN),
        b \in Optional("queueLength", 0..MaxNum),
        c \in Optional("uploadSpeed", 0..MaxNum),
        d \in Optional("fileCount", 0..MaxNum),
        e \in Optional("files", {<<>>, <<OneFile>>})}

\* the fields of a peer that passes every response-level criterion drawn
Peer == [username |-> <<"p">>, hasFreeUploadSlot |-> TRUE,
         queueLength |-> 1, uploadSpeed |-> 1]

SeqsUpTo(S, n) == UNION {[1..m -> S] : m \in 0..n}

\* files of differing names and sizes, for the lists of several files
FilePool ==
    {[filename |-> track_mp3, size |-> 2, bitRate |-> 2],
     [filename |-> Track_MP3, size |-> 1],
     [filename |-> a_mp3_flac, size |-> 2, length |-> 1],
     [filename |-> README]}

\* responses of differing peers, for the lists of several responses: one
\* has a wrong fileCount, one lacks the optional fields, one has an empty
\* files list and one has no files key
ResponsePool ==
    {[username |-> <<"p","1">>, hasFreeUploadSlot |-> TRUE, queueLength |-> 0,
      uploadSpeed |-> 2, fileCount |-> 2,
      files |-> <<[filename |-> track_mp3, size |-> 2, bitRate |-> 2],
                  [filename |-> README]>>],
     [username |-> <<"p","2">>, hasFreeUploadSlot |-> FALSE, queueLength |-> 2,
      uploadSpeed |-> 1, fileCount |-> 0,
      files |-> <<[filename |-> Track_MP3, size |-> 1, length |-> 1]>>],
     [username |-> <<"p","3">>,
      files |-> <<[filename |-> a_mp3_flac, size |-> 2, bitRate |-> 1],
                  [filename |-> track_mp3, size |-> 1]>>],
     [username |-> <<"p","4">>, hasFreeUploadSlot |-> TRUE, queueLength |-> 1,
      uploadSpeed |-> 1, fileCount |-> 0, files |-> <<>>],
     [username |-> <<"p","5">>, hasFreeUploadSlot |-> TRUE, queueLength |-> 1,
      uploadSpeed |-> 1]}

\* filter configurations that mix per-file and response-level criteria
MixedFilters ==
    {[minSize |-> 2, maxQueueLength |-> 1],
     [fileExtensions |-> <<mp3, flac>>, hasFreeSlot |-> TRUE, minSize |-> 1],
     [minBitRate |-> 1, minUploadSpeed |-> 2],
     [minSize |-> 0, minBitRate |-> 0, minLength |-> 0, maxQueueLength |-> 0,
      minUploadSpeed |-> 0, hasFreeSlot |-> FALSE, fileExtensions |-> <<>>]}

AllFilters == FileFilters \cup UserFilters \cup MixedFilters

(* --------------------------- state machine ---------------------------- *)

\* the caller holds a list of response dicts and a filter dict
Start(rs, flt) ==
    /\ heap = rs
    /\ responses = [i \in 1..Len(rs) |-> i]
    /\ filters = flt
    /\ result = <<>>
    /\ origin = <<>>
    /\ pc = "ready"

\* the calls filter_responses(responses, filters) that are explored:
\*   one response with one file, every file against every per-file criterion
\*   one response, every response against every response-level criterion
\*   one response with a list of files
\*   a list of responses
Init ==
    \/ \E f \in AllFiles, flt \in FileFilters :
          Start(<<Peer @@ [files |-> <<f>>]>>, flt)
    \/ \E r \in AllResponses, flt \in UserFilters :
          Start(<<r>>, flt)
    \/ \E fs \in SeqsUpTo(FilePool, MaxFiles), flt \in AllFilters :
          Start(<<Peer @@ [files |-> fs]>>, flt)
    \/ \E rs \in SeqsUpTo(ResponsePool, MaxResponses), flt \in AllFilters :
          Start(rs, flt)

\* the call filter_responses(responses, filters), up to its return
FilterCall ==
    /\ pc = "ready"
    /\ LET r == FilterResponses(heap, responses, filters) IN
        /\ heap' = r.heap
        /\ result' = r.filtered
        /\ origin' = r.origin
    /\ pc' = "returned"
    /\ UNCHANGED <<responses, filters>>

Next == FilterCall

Spec == Init /\ [][Next]_vars

(* ------------------------------ claims -------------------------------- *)

Returned == pc = "returned"

\* the input list and the returned list, as lists of dict values
InputValues == [i \in 1..Len(responses) |-> heap[responses[i]]]
OutputValues == [j \in 1..Len(result) |-> heap[result[j]]]

\* the input response the j-th returned response was copied from
SourceOf(j) == InputValues[origin[j]]

FilesOf(r) == IF "files" \in DOMAIN r THEN r["files"] ELSE <<>>

\* a field of a record, an absent field counting as 0
Field(d, key) == IF key \in DOMAIN d THEN d[key] ELSE 0

\* the falsy values: False, 0 and the empty string or list
IsFalsy(key, v) ==
    IF key \in BoolKeys THEN v = FALSE
    ELSE IF key \in ListKeys THEN v = <<>>
    ELSE v = 0

\* a criterion is set (active) when its key is present with a non-falsy value
IsSet(flt, key) == key \in DOMAIN flt /\ ~IsFalsy(key, flt[key])

\* a filter configuration without its falsy keys
Strip(flt) == [k \in {x \in DOMAIN flt : ~IsFalsy(x, flt[x])} |-> flt[k]]

HasDot(file) ==
    "filename" \in DOMAIN file /\ \E n \in 1..Len(file["filename"]) : file["filename"][n] = "."

\* the substring after the last "." of a name that has one
RECURSIVE AfterLastDot(_)
AfterLastDot(name) ==
    IF \E n \in 1..Len(name) : name[n] = "."
    THEN AfterLastDot(Tail(name))
    ELSE name

\* a is a subsequence of b
RECURSIVE IsSubseq(_, _)
IsSubseq(a, b) ==
    IF Len(a) = 0 THEN TRUE
    ELSE IF Len(b) = 0 THEN FALSE
    ELSE IF Head(a) = Head(b) THEN IsSubseq(Tail(a), Tail(b))
    ELSE IsSubseq(a, Tail(b))

\* the file meets every numeric lower bound that is set
MeetsBounds(file, flt) ==
    /\ IsSet(flt, "minBitRate") => Field(file, "bitRate") >= flt["minBitRate"]
    /\ IsSet(flt, "minSize") => Field(file, "size") >= flt["minSize"]
    /\ IsSet(flt, "minLength") => Field(file, "length") >= flt["minLength"]

\* the file's extension equals a configured extension, ignoring letter case
ExtensionAllowed(file, flt) ==
    /\ HasDot(file)
    /\ \E n \in 1..Len(flt["fileExtensions"]) :
          Lower(flt["fileExtensions"][n]) = Lower(AfterLastDot(file["filename"]))

\* the file fails at least one per-file predicate that is active
FailsSomePredicate(file, flt) ==
    \/ ~MeetsBounds(file, flt)
    \/ IsSet(flt, "fileExtensions") /\ ~ExtensionAllowed(file, flt)

\* the input responses with a non-empty files list, fileCount recounted
HasFiles(r) == Len(FilesOf(r)) > 0
Recounted(rs) ==
    [i \in 1..Len(rs) |->
        [k \in DOMAIN rs[i] \cup {"fileCount"} |->
            IF k = "fileCount" THEN Len(rs[i]["files"]) ELSE rs[i][k]]]

\* C1 as stated: with an empty filter configuration the returned list equals
\* the input list, element for element and field for field
C1_Identity ==
    (Returned /\ filters = EmptyDict) => OutputValues = InputValues

\* C1 amended: with an empty filter configuration the returned list is the
\* input list without the responses whose files list is empty or missing,
\* each kept response equal to its input field for field except fileCount,
\* which is the number of its files
C1_IdentityOnNonEmpty ==
    (Returned /\ filters = EmptyDict) =>
        OutputValues = Recounted(SelectSeq(InputValues, HasFiles))

C1_Witness ==
    /\ Returned /\ filters = EmptyDict
    /\ Len(result) >= 1 /\ Len(result) < Len(responses)
    /\ \E j \in 1..Len(result) : OutputValues[j] # SourceOf(j)

\* the file has a filename and the filename has no "."
NoDot(file) == "filename" \in DOMAIN file /\ ~HasDot(file)

\* C2: when fileExtensions is set, a file whose filename has no "." fails
\* _matches_file_filters and is in the files of no returned response
C2_NoDotFails ==
    (Returned /\ IsSet(filters, "fileExtensions")) =>
        /\ \A i \in 1..Len(responses) : \A k \in 1..Len(FilesOf(InputValues[i])) :
              NoDot(FilesOf(InputValues[i])[k]) =>
                  ~MatchesFileFilters(FilesOf(InputValues[i])[k], filters)
        /\ \A j \in 1..Len(result) : \A k \in 1..Len(FilesOf(OutputValues[j])) :
              ~NoDot(FilesOf(OutputValues[j])[k])

\* C3: when fileExtensions is set, a file whose filename has a "." passes the
\* extension predicate exactly when the substring after the last "." equals a
\* configured extension ignoring letter case
C3_CaseInsensitive ==
    (Returned /\ IsSet(filters, "fileExtensions")) =>
        \A i \in 1..Len(responses) : \A k \in 1..Len(FilesOf(InputValues[i])) :
            LET file == FilesOf(InputValues[i])[k] IN
            HasDot(file) =>
                (MatchesFileFilters(file, [fileExtensions |-> filters["fileExtensions"]])
                    <=> ExtensionAllowed(file, filters))

\* C4: every returned response has fileCount equal to the length of its files
C4_FileCount ==
    Returned =>
        \A j \in 1..Len(result) :
            /\ {"files", "fileCount"} \subseteq DOMAIN OutputValues[j]
            /\ OutputValues[j]["fileCount"] = Len(OutputValues[j]["files"])

C4_Witness ==
    /\ Returned
    /\ \E j \in 1..Len(result) : "fileCount" \notin DOMAIN SourceOf(j)
    /\ \E j \in 1..Len(result) :
          /\ "fileCount" \in DOMAIN SourceOf(j)
          /\ SourceOf(j)["fileCount"] # Len(OutputValues[j]["files"])

\* C5: an input response all of whose files fail an active per-file predicate
\* (or that has no files) is not returned, and no returned response has an
\* empty files list
C5_AllFailingDropped ==
    Returned =>
        /\ \A i \in 1..Len(responses) :
              (\A k \in 1..Len(FilesOf(InputValues[i])) :
                    FailsSomePredicate(FilesOf(InputValues[i])[k], filters))
              => ~\E j \in 1..Len(origin) : origin[j] = i
        /\ \A j \in 1..Len(result) : Len(FilesOf(OutputValues[j])) > 0

\* the returned response is the input response but for files and fileCount,
\* and its files are a subsequence of the input's files
DerivedFrom(out, in) ==
    /\ DOMAIN out = DOMAIN in \cup {"files", "fileCount"}
    /\ \A k \in DOMAIN in \ {"files", "fileCount"} : out[k] = in[k]
    /\ IsSubseq(FilesOf(out), FilesOf(in))

\* outs can be laid over ins in order, each on an input it is derived from
RECURSIVE Embeds(_, _)
Embeds(outs, ins) ==
    IF Len(outs) = 0 THEN TRUE
    ELSE IF Len(ins) = 0 THEN FALSE
    ELSE IF DerivedFrom(Head(outs), Head(ins)) THEN Embeds(Tail(outs), Tail(ins))
    ELSE Embeds(outs, Tail(ins))

\* C6: the returned responses are a subsequence of the input responses, and
\* the files of each are a subsequence of the files of the input response
C6_Subsequence ==
    Returned =>
        /\ Embeds(OutputValues, InputValues)
        /\ \A j \in 1..Len(result) :
              /\ DerivedFrom(OutputValues[j], SourceOf(j))
              /\ j > 1 => origin[j - 1] < origin[j]

C6_Witness ==
    /\ Returned
    /\ Len(result) >= 2
    /\ \E j \in 1..Len(result) :
          /\ Len(FilesOf(OutputValues[j])) >= 1
          /\ Len(FilesOf(OutputValues[j])) < Len(FilesOf(SourceOf(j)))

\* C7: the call changes neither the responses list, nor any dict that
\* existed before it (the input responses with their files and fileCount),
\* nor the filters
C7_InputsNotMutated ==
    [][/\ responses' = responses
       /\ filters' = filters
       /\ \A id \in 1..Len(heap) : heap'[id] = heap[id]]_vars

C7_Witness ==
    /\ Returned
    /\ \E j \in 1..Len(result) :
          /\ Len(FilesOf(OutputValues[j])) < Len(FilesOf(SourceOf(j)))
          /\ Field(SourceOf(j), "fileCount") # OutputValues[j]["fileCount"]

\* C8: every returned response meets every response-level criterion that is
\* set
C8_UserCriteria ==
    Returned =>
        \A j \in 1..Len(result) :
            LET r == OutputValues[j] IN
            /\ IsSet(filters, "hasFreeSlot") =>
                  ("hasFreeUploadSlot" \in DOMAIN r /\ r["hasFreeUploadSlot"] = TRUE)
            /\ IsSet(filters, "maxQueueLength") =>
                  Field(r, "queueLength") <= filters["maxQueueLength"]
            /\ IsSet(filters, "minUploadSpeed") =>
                  Field(r, "uploadSpeed") >= filters["minUploadSpeed"]

C8_Witness ==
    /\ Returned
    /\ IsSet(filters, "hasFreeSlot")
    /\ IsSet(filters, "maxQueueLength")
    /\ IsSet(filters, "minUploadSpeed")
    /\ Len(result) >= 1

NoUserCriteria ==
    ~IsSet(filters, "hasFreeSlot") /\ ~IsSet(filters, "maxQueueLength")
        /\ ~IsSet(filters, "minUploadSpeed")

\* C9: every file of a returned response meets every numeric lower bound that
\* is set, an absent field counting as 0; a file that meets them (so one
\* equal to a bound) is kept, and one that does not (so one lacking the
\* field of a positive bound) is removed
C9_LowerBounds ==
    Returned =>
        /\ \A j \in 1..Len(result) : \A k \in 1..Len(FilesOf(OutputValues[j])) :
              MeetsBounds(FilesOf(OutputValues[j])[k], filters)
        /\ ~IsSet(filters, "fileExtensions") =>
              \A j \in 1..Len(result) :
                  FilesOf(OutputValues[j]) =
                      SelectSeq(FilesOf(SourceOf(j)), LAMBDA f : MeetsBounds(f, filters))
        /\ (~IsSet(filters, "fileExtensions") /\ NoUserCriteria) =>
              \A i \in 1..Len(responses) :
                  (\E k \in 1..Len(FilesOf(InputValues[i])) :
                        MeetsBounds(FilesOf(InputValues[i])[k], filters))
                  => \E j \in 1..Len(origin) : origin[j] = i

C9_Witness ==
    /\ Returned
    /\ IsSet(filters, "minSize")
    /\ \E j \in 1..Len(result) :
          /\ \E k \in 1..Len(FilesOf(OutputValues[j])) :
                Field(FilesOf(OutputValues[j])[k], "size") = filters["minSize"]
          /\ \E k \in 1..Len(FilesOf(SourceOf(j))) :
                /\ "size" \notin DOMAIN FilesOf(SourceOf(j))[k]
                /\ ~\E m \in 1..Len(FilesOf(OutputValues[j])) :
                      FilesOf(OutputValues[j])[m] = FilesOf(SourceOf(j))[k]

\* C10: the call returns what it returns for the filter configuration
\* without its falsy keys
C10_FalsyAsAbsent ==
    Returned =>
        LET r == FilterResponses(heap, responses, Strip(filters)) IN
        OutputValues = [j \in 1..Len(r.filtered) |-> r.heap[r.filtered[j]]]

C10_Witness ==
    /\ Returned
    /\ "maxQueueLength" \in DOMAIN filters /\ filters["maxQueueLength"] = 0
    /\ "minSize" \in DOMAIN filters /\ filters["minSize"] = 0
    /\ \E j \in 1..Len(result) :
          /\ Field(OutputValues[j], "queueLength") > 0
          /\ \E k \in 1..Len(FilesOf(OutputValues[j])) :
                "size" \notin DOMAIN FilesOf(OutputValues[j])[k]
====
